---- MODULE Spec2Model ----
(***************************************************************************)
(* Model of CCSH (Counter ChaCha Stream Hash), src/ccsh.h.                 *)
(*                                                                         *)
(* A uint32_t is a pair <<hi, lo>> of 16-bit halves (value hi*2^16 + lo),  *)
(* so that every 32-bit operation of the source keeps its width.  Arrays   *)
(* of 16 words are functions on 0..15, indexed as in the source.  Byte     *)
(* sequences are TLA+ sequences of numbers in 0..255; memcpy into the      *)
(* word array is little-endian (the layout of the x86/ARM builds).         *)
(* The two uint64_t members are natural numbers: within the bounds below   *)
(* they stay far under 2^64, and only their low 32 bits enter a block.     *)
(* The data pointer of update is its offset from the start of the input:   *)
(* after a partial last chunk data += 32 leaves it beyond dataEnd, where   *)
(* data < dataEnd is false and the loop ends.                              *)
(***************************************************************************)
EXTENDS Integers, Sequences, FiniteSets, TLC

\* ------------------------------------------------------------------------
\* 32-bit unsigned arithmetic
\* ------------------------------------------------------------------------
Half == 65536

Pow2(n) == 2 ^ n

RECURSIVE XorBits(_, _)
\* a ^ b, bit by bit
XorBits(a, b) ==
  IF a = 0 THEN b
  ELSE IF b = 0 THEN a
  ELSE ((a + b) % 2) + 2 * XorBits(a \div 2, b \div 2)

\* a ^ b for two bytes, tabulated
XorByte == [a \in 0..255 |-> [b \in 0..255 |-> XorBits(a, b)]]

\* a ^ b for two 16-bit halves, byte by byte
Xor16(a, b) ==
  XorByte[a \div 256][b \div 256] * 256 + XorByte[a % 256][b % 256]

\* uint32_t ^ uint32_t
XorW(a, b) == << Xor16(a[1], b[1]), Xor16(a[2], b[2]) >>

\* uint32_t + uint32_t, wrapping modulo 2^32
AddW(a, b) ==
  LET lo == a[2] + b[2]
  IN  << (a[1] + b[1] + (lo \div Half)) % Half, lo % Half >>

\* static_cast<uint32_t>(n) of a 64-bit count n
ToU32(n) == << (n \div Half) % Half, n % Half >>

ZeroW == << 0, 0 >>

\* ((a) << (b)) | ((a) >> (32 - (b))) on uint32_t, for b in 1..31
RotlSmall(a, b) ==
  << ((a[1] * Pow2(b)) % Half) + (a[2] \div Pow2(16 - b)),
     ((a[2] * Pow2(b)) % Half) + (a[1] \div Pow2(16 - b)) >>

rotateLeft(a, b) ==
  IF b = 16 THEN << a[2], a[1] >>
  ELSE IF b < 16 THEN RotlSmall(a, b)
  ELSE RotlSmall(<< a[2], a[1] >>, b - 16)

\* ------------------------------------------------------------------------
\* ChaCha permutation
\* ------------------------------------------------------------------------
quarterRound(a, b, c, d) ==
  LET a1 == AddW(a, b)
      d1 == rotateLeft(XorW(d, a1), 16)
      c1 == AddW(c, d1)
      b1 == rotateLeft(XorW(b, c1), 12)
      a2 == AddW(a1, b1)
      d2 == rotateLeft(XorW(d1, a2), 8)
      c2 == AddW(c1, d2)
      b2 == rotateLeft(XorW(b1, c2), 7)
  IN  << a2, b2, c2, d2 >>

\* x with the four words at i, j, k, l replaced by r[1] .. r[4]
StoreFour(x, i, j, k, l, r) ==
  [x EXCEPT ![i] = r[1], ![j] = r[2], ![k] = r[3], ![l] = r[4]]

\* quarterRound(x[i], x[j], x[k], x[l]) on references into x
QRAt(x, i, j, k, l) ==
  StoreFour(x, i, j, k, l, quarterRound(x[i], x[j], x[k], x[l]))

DoubleRound(x) ==
  LET c0 == QRAt(x, 0, 4, 8, 12)
      c1 == QRAt(c0, 1, 5, 9, 13)
      c2 == QRAt(c1, 2, 6, 10, 14)
      c3 == QRAt(c2, 3, 7, 11, 15)
      d1 == QRAt(c3, 0, 5, 10, 15)
      d2 == QRAt(d1, 1, 6, 11, 12)
      d3 == QRAt(d2, 2, 7, 8, 13)
      d4 == QRAt(d3, 3, 4, 9, 14)
  IN  d4

NumDoubleRounds == 10

\* TLC evaluates definitions and arguments on demand; comparing a value with
\* itself evaluates it on the spot, so that a loop of the source is computed
\* iteration by iteration instead of as one nested expression.
Evaluated(v) == v = v

RECURSIVE Rounds(_, _)

\* the next iteration, entered with the array x the last one left
NextRound(x, i) == IF Evaluated(x) THEN Rounds(x, i) ELSE x

\* for (i = 0; i < 10; i++) { eight quarter rounds }
Rounds(x, i) ==
  IF i >= NumDoubleRounds THEN x ELSE NextRound(DoubleRound(x), i + 1)

\* out[i] = x[i] + in[i]
FeedForward(x, in) == [i \in 0..15 |-> AddW(x[i], in[i])]

chacha_block(in) == FeedForward(Rounds(in, 0), in)

\* ------------------------------------------------------------------------
\* Inputs: byte sequences described by <<length, first byte, stride>>
\* ------------------------------------------------------------------------
MaxLen == 256        \* longest single input
ShortLen == 3        \* a partial chunk
MaxCalls == 2        \* calls per session (the start and the updates after it)

ChunkBytes == 32     \* data += 32; std::min<uint8_t>(.., 32)
U8 == 256            \* number of values of a uint8_t

In(n, first, step) == [len |-> n, fill |-> first, stride |-> step]

Inputs ==
  { In(0, 0, 0),
    In(ShortLen, 97, 1),
    In(ChunkBytes, 97, 1),
    In(ChunkBytes + ShortLen, 97, 1),
    In(2 * ChunkBytes, 120, 0),
    In(MaxLen - ChunkBytes, 129, 1),
    In(MaxLen, 97, 1) }

Bytes(d) == [i \in 1..d.len |-> (d.fill + d.stride * (i - 1)) % U8]

Min(a, b) == IF a < b THEN a ELSE b

\* ------------------------------------------------------------------------
\* CCSH
\* ------------------------------------------------------------------------
ZeroState == [i \in 0..15 |-> ZeroW]

\* variant: the constants of the ChaCha reference, 0x61707865 0x3320646E
\* 0x79622D32 0x6B206574
currStateInitReference ==
  [i \in 0..15 |->
     CASE i = 0 -> << 24944, 30821 >>
       [] i = 1 -> << 13088, 25710 >>
       [] i = 2 -> << 31074, 11570 >>
       [] i = 3 -> << 27424, 25972 >>
       [] OTHER -> ZeroW]

\* std::array<uint32_t, 16> currState = {0x65787061, 0x6E642033, 0x32206279,
\* 0x7465206B}: the remaining twelve words are value-initialised to 0
currStateInit ==
  [i \in 0..15 |->
     CASE i = 0 -> << 25976, 28769 >>
       [] i = 1 -> << 28260, 8243 >>
       [] i = 2 -> << 12832, 25209 >>
       [] i = 3 -> << 29797, 8299 >>
       [] OTHER -> ZeroW]

\* byte p of the 32-byte payload region after memset(.., 0, 32) and
\* memcpy(.., data + off, n): data is 1-based here, off counts from 0
PayloadByte(data, off, n, p) == IF p < n THEN data[off + p + 1] ELSE 0

\* the uint32_t read back from payload bytes 4j .. 4j+3 (little-endian)
PayloadWord(data, off, n, j) ==
  << PayloadByte(data, off, n, 4 * j + 3) * U8 + PayloadByte(data, off, n, 4 * j + 2),
     PayloadByte(data, off, n, 4 * j + 1) * U8 + PayloadByte(data, off, n, 4 * j) >>

\* uint8_t bytesToCopy = std::min<uint8_t>(dataEnd - data, 32): the
\* difference is converted to uint8_t before the comparison
BytesToCopy(remaining) == Min(remaining % U8, ChunkBytes)

\* variant: word 14 takes the value of ++nonce instead of nonce++
PermInputPreIncrement(data, off, n, ctr, non) ==
  [i \in 0..15 |->
     IF i \in 4..11 THEN PayloadWord(data, off, n, i - 4)
     ELSE IF i = 12 THEN ToU32(ctr)
     ELSE IF i = 14 THEN ToU32(non + 1)
     ELSE currStateInit[i]]

\* currState as handed to chacha_block in one iteration of the loop
PermInput(data, off, n, ctr, non) ==
  [i \in 0..15 |->
     IF i \in 4..11 THEN PayloadWord(data, off, n, i - 4)
     ELSE IF i = 12 THEN ToU32(ctr)
     ELSE IF i = 14 THEN ToU32(non)
     ELSE currStateInit[i]]

\* state = outputBlock on the first block, state[j] ^= outputBlock[j] after
Fold(initialized_, state_, out) ==
  IF ~initialized_ THEN out
  ELSE [j \in 0..15 |-> XorW(state_[j], out[j])]

\* the hasher h (with the trace of its blocks) after the block blk, of n
\* input bytes, gave the permutation output out
Absorbed(h, n, blk, out) ==
  [state       |-> Fold(h.initialized, h.state, out),
   counter     |-> h.counter + n,
   nonce       |-> h.nonce + 1,
   initialized |-> TRUE,
   blocks      |-> Append(h.blocks, blk),
   outs        |-> Append(h.outs, out)]

Permuted(h, n, blk) == Absorbed(h, n, blk, chacha_block(blk))

Copied(h, data, off, n) ==
  Permuted(h, n, PermInput(data, off, n, h.counter + n, h.nonce))

\* one iteration of the loop of update: off is the distance of the data
\* pointer from the start of data
LoopBody(h, data, off) == Copied(h, data, off, BytesToCopy(Len(data) - off))

RECURSIVE UpdateLoop(_, _, _)

\* the next iteration, entered with the hasher h the last one left
NextChunk(h, data, off) == IF Evaluated(h) THEN UpdateLoop(h, data, off) ELSE h

\* variant: the loop condition data <= dataEnd
UpdateLoopInclusive(h, data, off) ==
  IF off > Len(data) THEN h
  ELSE NextChunk(LoopBody(h, data, off), data, off + ChunkBytes)

\* for (; data < dataEnd; data += 32)
UpdateLoop(h, data, off) ==
  IF off >= Len(data) THEN h
  ELSE NextChunk(LoopBody(h, data, off), data, off + ChunkBytes)

update(h, data) == UpdateLoop(h, data, 0)

\* variant: start without nonce = 0
ResetKeepsNonce(h) ==
  [state |-> ZeroState, counter |-> 0, nonce |-> h.nonce, initialized |-> FALSE,
   blocks |-> << >>, outs |-> << >>]

\* variant: start without state.fill(0)
ResetKeepsState(h) ==
  [state |-> h.state, counter |-> 0, nonce |-> 0, initialized |-> FALSE,
   blocks |-> << >>, outs |-> << >>]

\* state.fill(0); counter = 0; nonce = 0; initialized = false
Reset(h) ==
  [state |-> ZeroState, counter |-> 0, nonce |-> 0, initialized |-> FALSE,
   blocks |-> << >>, outs |-> << >>]

start(h, data) == update(Reset(h), data)

\* CCSH::CCSH() : state{0}, counter{0}, nonce{0}, initialized{false}
Constructed ==
  [state |-> ZeroState, counter |-> 0, nonce |-> 0, initialized |-> FALSE,
   blocks |-> << >>, outs |-> << >>]

\* ------------------------------------------------------------------------
\* hexdump
\* ------------------------------------------------------------------------
HexChars == << "0", "1", "2", "3", "4", "5", "6", "7",
               "8", "9", "a", "b", "c", "d", "e", "f" >>

RECURSIVE HexDigits16(_)
\* the hexadecimal digits of n, most significant first, none for n = 0
HexDigits16(n) ==
  IF n = 0 THEN << >>
  ELSE Append(HexDigits16(n \div 16), HexChars[(n % 16) + 1])

RECURSIVE PadLeft(_, _, _)
PadLeft(s, width, fill) ==
  IF Len(s) >= width THEN s ELSE PadLeft(<< fill >> \o s, width, fill)

\* std::hex conversion of a uint32_t: shortest digit string, "0" for zero
HexOfWord(w) ==
  IF w[1] = 0
  THEN (IF w[2] = 0 THEN << "0" >> ELSE HexDigits16(w[2]))
  ELSE HexDigits16(w[1]) \o PadLeft(HexDigits16(w[2]), 4, "0")

FieldWidth == 8      \* std::setw(8)

\* variant: without std::setw(8)
FormatWordNoWidth(w) == HexOfWord(w)

\* ss << std::hex << std::setw(8) << std::setfill('0') << state[i]
FormatWord(w) == PadLeft(HexOfWord(w), FieldWidth, "0")

RECURSIVE HexdumpFrom(_, _)
HexdumpFrom(st, i) ==
  IF i >= 16 THEN << >> ELSE FormatWord(st[i]) \o HexdumpFrom(st, i + 1)

hexdump(st) == HexdumpFrom(st, 0)

\* ------------------------------------------------------------------------
\* State machine: one CCSH instance and the calls made on it
\* ------------------------------------------------------------------------
VARIABLES
  state,        \* std::array<uint32_t, 16> state
  counter,      \* uint64_t counter
  nonce,        \* uint64_t nonce
  initialized,  \* bool initialized
  blocks,       \* history: the arrays handed to chacha_block since the last start
  outs,         \* history: the arrays chacha_block returned for them
  calls,        \* history: the start/update calls since the last start
  restarted,    \* history: the last start found the instance already initialized
  lastOp,       \* the call that just returned
  digest        \* the string the last call returned (<< >> for a void call)

vars == << state, counter, nonce, initialized, blocks, outs, calls, restarted,
          lastOp, digest >>

Hasher ==
  [state |-> state, counter |-> counter, nonce |-> nonce,
   initialized |-> initialized, blocks |-> blocks, outs |-> outs]

Install(h) ==
  /\ state' = h.state
  /\ counter' = h.counter
  /\ nonce' = h.nonce
  /\ initialized' = h.initialized
  /\ blocks' = h.blocks
  /\ outs' = h.outs

Init ==
  /\ state = Constructed.state
  /\ counter = Constructed.counter
  /\ nonce = Constructed.nonce
  /\ initialized = Constructed.initialized
  /\ blocks = << >>
  /\ outs = << >>
  /\ calls = << >>
  /\ restarted = FALSE
  /\ lastOp = "new"
  /\ digest = << >>

Start(d) ==
  \E h \in {start(Hasher, Bytes(d))} :
      /\ Install(h)
      /\ calls' = << [op |-> "start", data |-> d, nblocks |-> Len(h.blocks)] >>
      /\ restarted' = initialized
      /\ lastOp' = "start"
      /\ digest' = << >>

Update(d) ==
  /\ Len(calls) < MaxCalls
  /\ \E h \in {update(Hasher, Bytes(d))} :
         /\ Install(h)
         /\ calls' = Append(calls, [op |-> "update", data |-> d,
                                    nblocks |-> Len(h.blocks) - Len(blocks)])
         /\ lastOp' = "update"
         /\ UNCHANGED restarted
         /\ digest' = << >>

\* variant: a hexdump that finalises, clearing the instance
HexdumpClears ==
  /\ lastOp' = "hexdump"
  /\ digest' = hexdump(state)
  /\ state' = ZeroState
  /\ counter' = 0
  /\ nonce' = 0
  /\ initialized' = FALSE
  /\ UNCHANGED << blocks, outs, calls, restarted >>

Hexdump ==
  /\ lastOp' = "hexdump"
  /\ digest' = hexdump(state)
  /\ UNCHANGED << state, counter, nonce, initialized, blocks, outs, calls,
                  restarted >>

Next ==
  \/ \E d \in Inputs : Start(d)
  \/ \E d \in Inputs : Update(d)
  \/ Hexdump

Spec == Init /\ [][Next]_vars

\* ------------------------------------------------------------------------
\* The session as seen from outside
\* ------------------------------------------------------------------------
LastCall == calls[Len(calls)]

RECURSIVE SumLensTo(_)
\* number of bytes passed by the first k calls of the session
SumLensTo(k) == IF k = 0 THEN 0 ELSE SumLensTo(k - 1) + calls[k].data.len

RECURSIVE BlocksBefore(_)
\* number of blocks processed by the calls before call k of the session
BlocksBefore(k) == IF k = 1 THEN 0 ELSE BlocksBefore(k - 1) + calls[k - 1].nblocks

\* ceil(n / 32)
Chunks(n) == (n + ChunkBytes - 1) \div ChunkBytes

\* byte p (0..31) of the payload region of a PermutationInput, as it lies
\* in memory
MemByte(blk, p) ==
  LET w == blk[4 + (p \div 4)]
  IN  CASE p % 4 = 0 -> w[2] % U8
        [] p % 4 = 1 -> w[2] \div U8
        [] p % 4 = 2 -> w[1] % U8
        [] p % 4 = 3 -> w[1] \div U8

Payload(blk) == [p \in 0..(ChunkBytes - 1) |-> MemByte(blk, p)]

Fresh(d) == start(Constructed, Bytes(d))

SameCore(h) ==
  /\ state = h.state
  /\ counter = h.counter
  /\ nonce = h.nonce
  /\ initialized = h.initialized

\* ------------------------------------------------------------------------
\* C1: start(B1) followed by update(B2), with the length of B1 a multiple of
\* 32, leaves the same HashState (and digest) as a single start(B1 ++ B2).
\* ------------------------------------------------------------------------
C1_ChunkingEquivalence ==
  (/\ Len(calls) = 2
   /\ calls[1].op = "start"
   /\ calls[1].data.len % ChunkBytes = 0)
  => LET whole == start(Constructed, Bytes(calls[1].data) \o Bytes(calls[2].data))
     IN  /\ state = whole.state
         /\ hexdump(state) = hexdump(whole.state)

\* ------------------------------------------------------------------------
\* C2: a call with n bytes processes ceil(n/32) chunks, and the payload
\* region of chunk i holds exactly the input bytes [32i, min(32i+32, n))
\* followed by zero padding.
\* ------------------------------------------------------------------------
C2_ChunkPartition ==
  \A k \in 1..Len(calls) :
    LET data == Bytes(calls[k].data)
        n    == Len(data)
    IN  /\ calls[k].nblocks = Chunks(n)
        /\ \A i \in 0..(calls[k].nblocks - 1) :
             \A p \in 0..(ChunkBytes - 1) :
               MemByte(blocks[BlocksBefore(k) + i + 1], p)
                 = IF ChunkBytes * i + p < n THEN data[ChunkBytes * i + p + 1] ELSE 0

\* ------------------------------------------------------------------------
\* C3: counter is the number of bytes passed since the last start, and word
\* 12 of every block is the low 32 bits of the number of input bytes up to
\* and including that block's chunk.
\* ------------------------------------------------------------------------
CallTotals(before, n) ==
  [i \in 1..Chunks(n) |-> before + Min(i * ChunkBytes, n)]

RECURSIVE TotalsFrom(_)
TotalsFrom(k) ==
  IF k > Len(calls) THEN << >>
  ELSE CallTotals(SumLensTo(k - 1), calls[k].data.len) \o TotalsFrom(k + 1)

C3_CounterIsByteCount ==
  /\ counter = SumLensTo(Len(calls))
  /\ Len(blocks) = Len(TotalsFrom(1))
  /\ \A b \in 1..Len(blocks) : blocks[b][12] = ToU32(TotalsFrom(1)[b])

\* ------------------------------------------------------------------------
\* C4: start(B), whatever was done with the instance before, leaves
\* HashState, BlockCounter, NonceCounter and Initialized (and the digest)
\* as a freshly constructed instance has them after start(B).
\* ------------------------------------------------------------------------
C4_StartResetsEverything ==
  lastOp = "start"
  => /\ SameCore(Fresh(calls[1].data))
     /\ hexdump(state) = hexdump(Fresh(calls[1].data).state)

C4_Witness ==
  /\ lastOp = "start"
  /\ restarted
  /\ calls[1].data.len > 0
  /\ SameCore(Fresh(calls[1].data))

\* ------------------------------------------------------------------------
\* C5: hexdump changes none of HashState, BlockCounter, NonceCounter and
\* Initialized, and a hexdump right after a hexdump returns the same string.
\* ------------------------------------------------------------------------
C5_HexdumpIsPureRead ==
  [][lastOp' = "hexdump"
     => /\ UNCHANGED << state, counter, nonce, initialized >>
        /\ lastOp = "hexdump" => digest' = digest]_vars

C5_Witness ==
  /\ lastOp = "hexdump"
  /\ initialized
  /\ Len(calls) = 2
  /\ digest = hexdump(state)

\* ------------------------------------------------------------------------
\* C6: start of an empty input leaves the state of a freshly constructed
\* instance (all-zero HashState, digest of 128 '0', both counters 0,
\* Initialized false); update of an empty input changes no field.
\* ------------------------------------------------------------------------
Zeros128 == [i \in 1..128 |-> "0"]

C6_EmptyInputNoChunk ==
  [][/\ (lastOp' = "start" /\ calls'[1].data.len = 0)
        => /\ state' = ZeroState
           /\ hexdump(state') = Zeros128
           /\ counter' = 0
           /\ nonce' = 0
           /\ initialized' = FALSE
           /\ state' = Constructed.state
     /\ (lastOp' = "update" /\ calls'[Len(calls')].data.len = 0)
        => UNCHANGED << state, counter, nonce, initialized >>]_vars

C6_Witness ==
  /\ lastOp = "update"
  /\ Len(calls) = 2
  /\ calls[1].op = "start"
  /\ calls[1].data.len > 0
  /\ calls[2].data.len = 0
  /\ initialized
  /\ SameCore(Fresh(calls[1].data))

\* ------------------------------------------------------------------------
\* C7: the digest is 128 characters of 0-9a-f; characters 8i+1 .. 8i+8 are
\* the zero-padded hexadecimal digits of HashState word i, most significant
\* first.
\* ------------------------------------------------------------------------
HexVal(c) == CHOOSE v \in 0..15 : HexChars[v + 1] = c

\* the number written by four hexadecimal digits s[from] .. s[from + 3]
Hex4(s, from) ==
  ((HexVal(s[from]) * 16 + HexVal(s[from + 1])) * 16 + HexVal(s[from + 2])) * 16
    + HexVal(s[from + 3])

C7_DigestFormat ==
  lastOp = "hexdump"
  => /\ Len(digest) = 16 * FieldWidth
     /\ \A k \in 1..Len(digest) : \E v \in 0..15 : digest[k] = HexChars[v + 1]
     /\ \A i \in 0..15 :
          << Hex4(digest, 8 * i + 1), Hex4(digest, 8 * i + 5) >> = state[i]

C7_Witness ==
  /\ lastOp = "hexdump"
  /\ initialized
  /\ \E i \in 0..15 : state[i][1] < 4096 /\ state[i] # ZeroW
  /\ Len(digest) = 16 * FieldWidth

\* ------------------------------------------------------------------------
\* C8: the k-th block (from 0) of a session has word 14 = k, NonceCounter
\* is the number of blocks processed, and no two blocks of a session have
\* the same PermutationInput.
\* ------------------------------------------------------------------------
C8_NonceCountsBlocks ==
  /\ nonce = Len(blocks)
  /\ \A k \in 1..Len(blocks) : blocks[k][14] = ToU32(k - 1)
  /\ \A j, k \in 1..Len(blocks) : j # k => blocks[j] # blocks[k]

C8_Witness ==
  /\ Len(calls) = 2
  /\ calls[1].nblocks > 0
  /\ calls[2].nblocks > 1
  /\ nonce = Len(blocks)
  /\ \E j, k \in 1..Len(blocks) :
       j < k /\ Payload(blocks[j]) = Payload(blocks[k]) /\ blocks[j] # blocks[k]

\* ------------------------------------------------------------------------
\* C9 (as stated): words 0..3 of every PermutationInput are the bytes of
\* "expand 32-byte k" read as four little-endian words, and words 13 and 15
\* are zero.
\* ------------------------------------------------------------------------
\* e x p a  n d ' ' 3  2 - b y  t e ' ' k
SigmaHyphen == << 101, 120, 112, 97, 110, 100, 32, 51,
                  50, 45, 98, 121, 116, 101, 32, 107 >>

\* e x p a  n d ' ' 3  2 ' ' b y  t e ' ' k
SigmaSpace == << 101, 120, 112, 97, 110, 100, 32, 51,
                 50, 32, 98, 121, 116, 101, 32, 107 >>

LittleEndianWord(b, i) ==
  << b[4 * i + 4] * U8 + b[4 * i + 3], b[4 * i + 2] * U8 + b[4 * i + 1] >>

BigEndianWord(b, i) ==
  << b[4 * i + 1] * U8 + b[4 * i + 2], b[4 * i + 3] * U8 + b[4 * i + 4] >>

C9_SigmaLittleEndian ==
  \A k \in 1..Len(blocks) :
    /\ \A i \in 0..3 : blocks[k][i] = LittleEndianWord(SigmaHyphen, i)
    /\ blocks[k][13] = ZeroW
    /\ blocks[k][15] = ZeroW

\* C9 (amended): words 0..3 of every PermutationInput are 0x65787061,
\* 0x6E642033, 0x32206279, 0x7465206B, the bytes of "expand 32 byte k"
\* (a space where the hyphen was) packed most significant byte first, and
\* words 13 and 15 are zero.
C9_SigmaBigEndian ==
  \A k \in 1..Len(blocks) :
    /\ \A i \in 0..3 : blocks[k][i] = BigEndianWord(SigmaSpace, i)
    /\ blocks[k][0] = << 25976, 28769 >>
    /\ blocks[k][13] = ZeroW
    /\ blocks[k][15] = ZeroW

C9_Witness ==
  /\ Len(blocks) >= 2
  /\ blocks[2][0] = BigEndianWord(SigmaSpace, 0)
  /\ blocks[2][12] # ZeroW
  /\ blocks[2][14] # ZeroW

\* ------------------------------------------------------------------------
\* C10: Initialized false implies an all-zero HashState and NonceCounter 0;
\* Initialized is true iff a block has been processed since the last
\* start or the construction; HashState is the word-wise XOR of all the
\* permutation outputs of the session.
\* ------------------------------------------------------------------------
RECURSIVE XorAll(_, _)
XorAll(seq, k) ==
  IF k = 0 THEN ZeroState
  ELSE LET rest == XorAll(seq, k - 1)
       IN  [j \in 0..15 |-> XorW(rest[j], seq[k][j])]

C10_InitializedInvariant ==
  /\ ~initialized => (state = ZeroState /\ nonce = 0)
  /\ initialized <=> Len(blocks) > 0
  /\ Len(outs) = Len(blocks)
  /\ state = XorAll(outs, Len(outs))

C10_Witness ==
  /\ calls # << >>
  /\ calls[1].op = "update"
  /\ Len(calls) = 2
  /\ initialized
  /\ Len(outs) >= 3
  /\ state = XorAll(outs, Len(outs))

====
